---- MODULE Spec2Model ----
(***************************************************************************)
(* Model of the CDSfold benchmark harness (benchmark.cpp) and of the      *)
(* micro-benchmark comparisons (micro_benchmark.cpp).                      *)
(*                                                                         *)
(* Conventions                                                             *)
(*  - A C++ string is a sequence of one-character strings.                 *)
(*  - A duration is the integer count of microseconds that                 *)
(*    duration_cast<microseconds> yields; the double "count / 1000.0"      *)
(*    milliseconds is kept as that count (fixed point, 1000 per ms), so    *)
(*    the sentinel -1.0 ms is -1000.                                       *)
(*  - The state of mt19937 seeded with 42 is the number of output words    *)
(*    already consumed from its stream.                                    *)
(***************************************************************************)
EXTENDS Integers, Sequences, FiniteSets, TLC

(***************************************************************************)
(* Bounds of the model                                                     *)
(***************************************************************************)
\* number of leading entries of the file list that a run uses
MaxFiles == 2
\* number of leading entries of the configuration list that a run uses
MaxConfigs == 2
\* largest length passed to generateTestSequence by the generator driver
MaxGenLen == 2
\* number of generateTestSequence calls per generator instance in the driver
MaxGenCalls == 3
\* iterations of a timed loop that runs ITERATIONS times
Iterations == 2
\* iterations of the timed loops of benchmark_ArrayClearing (10000 in the code)
ClearIterations == 1

(***************************************************************************)
(* Strings                                                                 *)
(***************************************************************************)
DigitChars == <<"0", "1", "2", "3", "4", "5", "6", "7", "8", "9">>

RECURSIVE to_string(_)
\* std::to_string of a non-negative integer
to_string(n) ==
    IF n < 10 THEN <<DigitChars[n + 1]>>
    ELSE to_string(n \div 10) \o <<DigitChars[(n % 10) + 1]>>

IsDigit(c) == \E d \in 1..10 : DigitChars[d] = c

DigitVal(c) == (CHOOSE d \in 1..10 : DigitChars[d] = c) - 1

RECURSIVE stoi_acc(_, _)
stoi_acc(s, acc) ==
    IF s = <<>> \/ ~IsDigit(Head(s)) THEN acc
    ELSE stoi_acc(Tail(s), acc * 10 + DigitVal(Head(s)))

\* std::stoi on a string that starts with a digit: the leading decimal number
stoi(s) == stoi_acc(s, 0)

\* std::string::find(char): 0-based position of the first occurrence
\* (Len(s) stands for "not found"; every file name has both characters)
find(s, c) ==
    IF \E i \in 1..Len(s) : s[i] = c
    THEN (CHOOSE i \in 1..Len(s) : s[i] = c /\ \A j \in 1..(i - 1) : s[j] # c) - 1
    ELSE Len(s)

\* std::string::substr(pos, n), pos 0-based
substr(s, pos, n) == SubSeq(s, pos + 1, pos + n)

(***************************************************************************)
(* Corpus generator: PerformanceBenchmark::rng and generateTestSequence    *)
(***************************************************************************)
amino_acids ==
    <<"A", "C", "D", "E", "F", "G", "H", "I", "K", "L", "M",
      "N", "P", "Q", "R", "S", "T", "V", "W", "Y", "*">>

\* Values returned by uniform_int_distribution<int>(0, 20) on successive
\* output words of mt19937 seeded with 42 (word * 21 / 2^32; the first word
\* is 1608637542).  One word is consumed per value.
Seed42Stream ==
 <<7, 16, 19, 3, 15, 16, 12, 12, 3, 9, 3, 2, 1, 9, 18, 7, 12, 3, 14, 13,
   0, 1, 20, 15, 17, 19, 4, 0, 3, 20, 3, 12, 6, 12, 11, 0, 9, 0, 6, 11,
   12, 8, 2, 0, 6, 20, 7, 4, 9, 1, 16, 12, 4, 8, 10, 20, 12, 9, 0, 18,
   12, 14, 3, 9, 1, 0, 19, 19, 20, 11, 16, 8, 6, 0, 2, 4, 14, 5, 9, 14,
   2, 12, 10, 17, 0, 3, 19, 8, 5, 3, 13, 15, 6, 8, 10, 4, 11, 11, 3, 0,
   20, 17, 16, 9, 19, 8, 18, 19, 12, 15, 19, 6, 1, 11, 4, 10, 0, 20, 6, 17,
   8, 15, 5, 11, 17, 12, 7, 20, 5, 12, 11, 5, 2, 6, 16, 3, 1, 0, 20, 8,
   16, 8, 4, 6, 0, 0, 17, 4, 14, 14, 15, 16, 16, 12, 1, 19, 7, 13, 2, 19,
   18, 17, 13, 9, 6, 2, 1, 7, 6, 14, 6, 13, 15, 12, 13, 5, 18, 11, 9, 8,
   2, 20, 14, 17, 15, 15, 11, 4, 16, 5, 10, 0, 10, 14, 8, 2, 0, 9, 2, 4>>

\* rng(42): a freshly constructed generator has consumed no word
SeededRng == 0

\* dist(rng) in generator state r: the drawn index; the state becomes r + 1
dist(r) == Seed42Stream[r + 1]

RECURSIVE DrawSymbols(_, _)
\* the loop of generateTestSequence: length symbols drawn from state r on
DrawSymbols(length, r) ==
    IF length = 0 THEN <<>>
    ELSE <<amino_acids[dist(r) + 1]>> \o DrawSymbols(length - 1, r + 1)

\* generateTestSequence(length) called in generator state r: the string
generateTestSequence(length, r) ==
    <<">">> \o to_string(length)
        \o <<"_", "t", "e", "s", "t", "_", "s", "e", "q", "u", "e", "n", "c", "e", "\n">>
        \o DrawSymbols(length, r)

\* the generator state that generateTestSequence(length) leaves behind
RngAfter(length, r) == r + length

(***************************************************************************)
(* The matrix of benchmark.cpp                                             *)
(***************************************************************************)
FilePrefix == <<"t", "e", "s", "t", "_">>
FileSuffix == <<".", "f", "a", "a">>

\* lengths of createTestFiles
lengths == <<10, 25, 50, 100, 200, 500, 1000>>

\* test_files of runBenchmarkSuite
test_files ==
    << FilePrefix \o <<"1", "0">> \o FileSuffix,
       FilePrefix \o <<"2", "5">> \o FileSuffix,
       FilePrefix \o <<"5", "0">> \o FileSuffix,
       FilePrefix \o <<"1", "0", "0">> \o FileSuffix,
       FilePrefix \o <<"2", "0", "0">> \o FileSuffix,
       FilePrefix \o <<"5", "0", "0">> \o FileSuffix,
       FilePrefix \o <<"1", "0", "0", "0">> \o FileSuffix >>

\* test_configs of runBenchmarkSuite: <<label, options>>
test_configs ==
    << <<"default", "">>,
       <<"window_20", "-w 20">>,
       <<"window_50", "-w 50">>,
       <<"exclude_codons", "-e GUA,GUC,CUG">>,
       <<"reverse_opt", "-r">> >>

\* the file name createTestFiles gives to a length
FileName(len) == FilePrefix \o to_string(len) \o FileSuffix

\* State of ./src/CDSfold on disk
ExeStates == {"missing", "unexecutable", "ok"}

\* variant: the check asks for an executable file (test -x)
ExecutableFound_TestX(e) == e = "ok"

\* system("test -f ./src/CDSfold") == 0: a regular file is there
ExecutableFound(e) == e # "missing"

\* Wait statuses system() can return for a cell: 0, exit code 1 (256); the
\* shell's 126 "cannot execute" (32256) when the file has no execute bit
ExitStatuses(e) == IF e = "unexecutable" THEN {32256} ELSE {0, 256}

\* Readings of Timer::elapsed_ms for one child, in microseconds
Elapsed == {0, 2500, 20000000}

\* variant: the exit status is ignored and the reading always returned
benchmarkCDSfold_NoSentinel(result, elapsed) == elapsed

\* return value of benchmarkCDSfold for exit status result and reading elapsed
benchmarkCDSfold(result, elapsed) ==
    IF result # 0 THEN -1000 ELSE elapsed

\* the command line benchmarkCDSfold passes to system()
Command(test_file, options) ==
    <<"./src/CDSfold ", options, " ", test_file, " > /dev/null 2>&1">>

\* int(seq_length * 1000.0 / time_ms): truncation toward zero, time_ms > 0
ThroughputValue(seq_length, time_ms) == (seq_length * 1000000) \div time_ms

\* the row runBenchmarkSuite prints for one cell
Row(file, label, time_ms, seq_length) ==
    [ file       |-> file,
      config     |-> label,
      time_ms    |-> time_ms,
      throughput |-> IF time_ms > 0
                     THEN <<ThroughputValue(seq_length, time_ms), " aa/s">>
                     ELSE <<"N/A">>,
      status     |-> IF time_ms > 0 THEN "OK" ELSE "FAILED" ]

\* variant: a failed cell prints no row
EmitRow_SkipFailed(table, file, label, time_ms, seq_length) ==
    IF time_ms > 0 THEN Append(table, Row(file, label, time_ms, seq_length)) ELSE table

\* cout << row: the table after the cell's row is printed
EmitRow(table, file, label, time_ms, seq_length) ==
    Append(table, Row(file, label, time_ms, seq_length))

\* results[label].push_back(time_ms) under "if (time_ms > 0)"
Record(res, label, time_ms) ==
    IF time_ms > 0
    THEN [l \in DOMAIN res \cup {label} |->
            IF l = label
            THEN (IF l \in DOMAIN res THEN Append(res[l], time_ms) ELSE <<time_ms>>)
            ELSE res[l]]
    ELSE res

\* the empty std::map
EmptyMap == [l \in {} |-> <<>>]


(***************************************************************************)
(* IEEE-754 binary64 arithmetic, as far as analyzeResults uses it: positive *)
(* finite values and zero, round to nearest, ties to even.  A natural      *)
(* number too wide for one integer is a sequence of 20-bit limbs, least    *)
(* significant first, without leading zero limbs.  A double is             *)
(* [m, e] with value m * 2^e and m of exactly 53 bits; zero is [<<>>, 0].  *)
(***************************************************************************)
LimbBits == 20
Limb == 1048576
MantissaBits == 53

RECURSIVE Trim(_)
Trim(N) == IF N # <<>> /\ N[Len(N)] = 0 THEN Trim(SubSeq(N, 1, Len(N) - 1)) ELSE N

\* a non-negative int (below 2^31) as limbs
NatOfInt(n) == Trim(<<n % Limb, n \div Limb>>)

RECURSIVE BitLenInt(_)
BitLenInt(x) == IF x = 0 THEN 0 ELSE 1 + BitLenInt(x \div 2)

BitLen(N) == IF N = <<>> THEN 0 ELSE LimbBits * (Len(N) - 1) + BitLenInt(N[Len(N)])

RECURSIVE MulPow2(_, _, _)
\* N * 2^r for 0 <= r < LimbBits, carry coming in from the limb below
MulPow2(N, r, carry) ==
    IF N = <<>> THEN <<carry>>
    ELSE LET cut == 2 ^ (LimbBits - r)
         IN  <<(Head(N) % cut) * (2 ^ r) + carry>> \o MulPow2(Tail(N), r, Head(N) \div cut)

\* N * 2^k
ShiftLeft(N, k) ==
    IF N = <<>> THEN <<>>
    ELSE [i \in 1..(k \div LimbBits) |-> 0] \o Trim(MulPow2(N, k % LimbBits, 0))

\* floor(N / 2^k)
ShiftRight(N, k) ==
    LET drop == k \div LimbBits
        r    == k % LimbBits
        rest == IF drop >= Len(N) THEN <<>> ELSE SubSeq(N, drop + 1, Len(N))
    IN  Trim([i \in 1..Len(rest) |->
                (rest[i] \div (2 ^ r))
                + (IF i < Len(rest) THEN (rest[i + 1] % (2 ^ r)) * (2 ^ (LimbBits - r)) ELSE 0)])

\* bit i of N, bit 0 the least significant
BitOf(N, i) ==
    LET l == (i \div LimbBits) + 1
    IN  IF l > Len(N) THEN 0 ELSE (N[l] \div (2 ^ (i % LimbBits))) % 2

\* N mod 2^k = 0
LowBitsZero(N, k) ==
    /\ \A l \in 1..(k \div LimbBits) : l > Len(N) \/ N[l] = 0
    /\ LET l == (k \div LimbBits) + 1
       IN  l > Len(N) \/ N[l] % (2 ^ (k % LimbBits)) = 0

RECURSIVE AddNatC(_, _, _)
AddNatC(A, B, carry) ==
    IF A = <<>> /\ B = <<>> THEN (IF carry = 0 THEN <<>> ELSE <<carry>>)
    ELSE LET a == IF A = <<>> THEN 0 ELSE Head(A)
             b == IF B = <<>> THEN 0 ELSE Head(B)
             t == a + b + carry
         IN  <<t % Limb>> \o AddNatC(IF A = <<>> THEN <<>> ELSE Tail(A),
                                      IF B = <<>> THEN <<>> ELSE Tail(B), t \div Limb)

AddNat(A, B) == AddNatC(A, B, 0)

RECURSIVE DivNatR(_, _, _)
\* long division of N by n < 2048 from the top limb down: quotient limbs
\* (least significant first) and remainder
DivNatR(N, n, r) ==
    IF N = <<>> THEN [q |-> <<>>, r |-> r]
    ELSE LET cur  == r * Limb + N[Len(N)]
             rest == DivNatR(SubSeq(N, 1, Len(N) - 1), n, cur % n)
         IN  [q |-> rest.q \o <<cur \div n>>, r |-> rest.r]

DivNat(N, n) == LET d == DivNatR(N, n, 0) IN [q |-> Trim(d.q), r |-> d.r]

RECURSIVE LessNatFrom(_, _, _)
LessNatFrom(A, B, i) ==
    IF i = 0 THEN FALSE
    ELSE IF A[i] # B[i] THEN A[i] < B[i]
    ELSE LessNatFrom(A, B, i - 1)

\* A < B
LessNat(A, B) ==
    IF Len(A) # Len(B) THEN Len(A) < Len(B) ELSE LessNatFrom(A, B, Len(A))

DZero == [m |-> <<>>, e |-> 0]

\* the double nearest to (N + f) * 2^e, where 0 <= f < 1 and sticky tells
\* whether f is not zero (f may be non-zero only if N has over 54 bits)
RoundToDouble(N, e, sticky) ==
    LET L == BitLen(N)
    IN  IF L = 0 THEN DZero
        ELSE IF L <= MantissaBits
        THEN [m |-> ShiftLeft(N, MantissaBits - L), e |-> e - (MantissaBits - L)]
        ELSE LET k     == L - MantissaBits
                 q     == ShiftRight(N, k)
                 guard == BitOf(N, k - 1) = 1
                 below == sticky \/ ~LowBitsZero(N, k - 1)
                 up    == guard /\ (below \/ BitOf(q, 0) = 1)
                 m1    == IF up THEN AddNat(q, <<1>>) ELSE q
             IN  IF BitLen(m1) > MantissaBits
                 THEN [m |-> ShiftRight(m1, 1), e |-> e + k + 1]
                 ELSE [m |-> m1, e |-> e + k]

\* the double of an int (exact)
DFromInt(n) == RoundToDouble(NatOfInt(n), 0, FALSE)

\* x + y
DAdd(x, y) ==
    IF x.m = <<>> THEN y
    ELSE IF y.m = <<>> THEN x
    ELSE LET e == IF x.e < y.e THEN x.e ELSE y.e
         IN  RoundToDouble(AddNat(ShiftLeft(x.m, x.e - e), ShiftLeft(y.m, y.e - e)), e, FALSE)

\* x / n for an integer 0 < n < 2048 (n converted to double is exact)
DDivInt(x, n) ==
    LET d == DivNat(ShiftLeft(x.m, 14), n)
    IN  RoundToDouble(d.q, x.e - 14, d.r # 0)

\* x < y
DLess(x, y) ==
    IF y.m = <<>> THEN FALSE
    ELSE IF x.m = <<>> THEN TRUE
    ELSE IF x.e # y.e THEN x.e < y.e
    ELSE LessNat(x.m, y.m)

\* duration.count() / 1000.0: the time in milliseconds a sample stands for
Millis(us) == DDivInt(DFromInt(us), 1000)

RECURSIVE MulSmall(_, _, _)
\* N * c for 0 <= c < 2048, carry coming in from the limb below
MulSmall(N, c, carry) ==
    IF N = <<>> THEN (IF carry = 0 THEN <<>> ELSE <<carry>>)
    ELSE LET t == Head(N) * c + carry
         IN  <<t % Limb>> \o MulSmall(Tail(N), c, t \div Limb)

\* a natural number below 2^31 as an int
IntOfNat(N) ==
    IF N = <<>> THEN 0 ELSE IF Len(N) = 1 THEN N[1] ELSE N[1] + N[2] * Limb

\* cout << fixed << setprecision(2) << x: the hundredths printed, which are
\* the exact value of x times 100 rounded to nearest, ties to even
Fixed2(x) ==
    LET N == MulSmall(x.m, 100, 0)
    IN  IF x.e >= 0 THEN IntOfNat(ShiftLeft(N, x.e))
        ELSE LET k     == 0 - x.e
                 q     == ShiftRight(N, k)
                 guard == BitOf(N, k - 1) = 1
                 below == ~LowBitsZero(N, k - 1)
                 up    == guard /\ (below \/ BitOf(q, 0) = 1)
             IN  IntOfNat(IF up THEN AddNat(q, <<1>>) ELSE q)

RECURSIVE Sum(_)
\* total_time of analyzeResults: the samples added up front to back, from 0
Sum(samples) ==
    IF samples = <<>> THEN DZero
    ELSE DAdd(Sum(SubSeq(samples, 1, Len(samples) - 1)), Millis(samples[Len(samples)]))

RECURSIVE MinOf(_)
\* min_time of analyzeResults: starts at the first sample, min() over all
MinOf(samples) ==
    IF Len(samples) = 1 THEN samples[1]
    ELSE LET m == MinOf(SubSeq(samples, 1, Len(samples) - 1))
             t == samples[Len(samples)]
         IN  IF t < m THEN t ELSE m

RECURSIVE MaxOf(_)
\* max_time of analyzeResults: starts at the first sample, max() over all
MaxOf(samples) ==
    IF Len(samples) = 1 THEN samples[1]
    ELSE LET m == MaxOf(SubSeq(samples, 1, Len(samples) - 1))
             t == samples[Len(samples)]
         IN  IF m < t THEN t ELSE m

\* the block analyzeResults prints for one non-empty sample list; avg_time
\* is the double total_time / size, min_time and max_time are samples; the
\* three lines "Average time", "Min time", "Max time" show hundredths of a ms
Stats(samples) ==
    LET avg == DDivInt(Sum(samples), Len(samples))
        mn  == MinOf(samples)
        mx  == MaxOf(samples)
    IN  [ avg_time |-> avg,
          min_time |-> mn,
          max_time |-> mx,
          tests    |-> Len(samples),
          shown    |-> [ avg |-> Fixed2(avg),
                         min |-> Fixed2(Millis(mn)),
                         max |-> Fixed2(Millis(mx)) ] ]

\* analyzeResults: one block per key of the map whose list is not empty
Summarize(res) ==
    [l \in {k \in DOMAIN res : res[k] # <<>>} |-> Stats(res[l])]

RECURSIVE CreateFiles(_, _, _, _)
\* createTestFiles from the k-th length on, over the first n lengths:
\* the files written and the generator state left behind
CreateFiles(k, n, fs, r) ==
    IF k > n THEN [files |-> fs, rng |-> r]
    ELSE LET len  == lengths[k]
             name == FileName(len)
             text == generateTestSequence(len, r)
         IN  CreateFiles(k + 1, n,
                 [f \in DOMAIN fs \cup {name} |-> IF f = name THEN text ELSE fs[f]],
                 RngAfter(len, r))

(***************************************************************************)
(* State                                                                   *)
(***************************************************************************)
VARIABLES
    pc,          \* position of main() of benchmark.cpp
    exe,         \* state of ./src/CDSfold on disk
    nfiles,      \* how many files the run uses
    nconfigs,    \* how many configurations the run uses
    fi,          \* index of the outer loop of runBenchmarkSuite
    ci,          \* index of the inner loop of runBenchmarkSuite
    rng,         \* PerformanceBenchmark::rng
    files,       \* the test files on disk: name -> content
    calls,       \* the child processes launched by benchmarkCDSfold: exit status,
                 \* and the timer reading where the code goes on to use it
    warnings,    \* the files named in the warnings benchmarkCDSfold wrote to cerr
    rows,        \* the rows of the table printed by runBenchmarkSuite
    results,     \* PerformanceBenchmark::results
    summary,     \* the blocks printed by analyzeResults
    notfound,    \* how often "CDSfold executable not found" was printed
    exit_code,   \* return value of main(), -1 while it runs
    gen_rng,     \* generator driver: rng of each PerformanceBenchmark instance
    gen_out,     \* generator driver: the calls made and the strings returned
    mpc,         \* position of MicroBenchmark::runAllBenchmarks
    bench,       \* which comparison is running
    iter,        \* loop counter i of timeFunction
    trace,       \* the invocations of func of the running comparison, in order
    timings,     \* the lines timeFunction printed for the running comparison
    old_time,    \* old_time of the running comparison, -1 before it is measured
    new_time,    \* new_time of the running comparison, -1 before it is measured
    improvement, \* the improvement printed by the running comparison
    vresult,     \* the local "volatile int result" of the running comparison
    len,         \* matrix-size driver: argument len
    w,           \* matrix-size driver: argument w
    size         \* matrix-size driver: the values returned so far, by function

harness_vars == <<pc, exe, nfiles, nconfigs, fi, ci, rng, files, calls, warnings,
                  rows, results, summary, notfound, exit_code>>
gen_vars == <<gen_rng, gen_out>>
micro_vars == <<mpc, bench, iter, trace, timings, old_time, new_time, improvement,
                vresult>>
size_vars == <<len, w, size>>
vars == <<harness_vars, gen_vars, micro_vars, size_vars>>

Instances == {1, 2}

HarnessIdle ==
    /\ pc = "main" /\ exe = "ok" /\ nfiles = 1 /\ nconfigs = 1
    /\ fi = 1 /\ ci = 1 /\ rng = SeededRng /\ files = EmptyMap
    /\ calls = <<>> /\ warnings = <<>> /\ rows = <<>> /\ results = EmptyMap
    /\ summary = EmptyMap /\ notfound = 0 /\ exit_code = -1

GenIdle ==
    /\ gen_rng = [i \in Instances |-> SeededRng]
    /\ gen_out = <<>>

MicroIdle ==
    /\ mpc = "start" /\ bench = 1 /\ iter = 0 /\ trace = <<>> /\ timings = <<>>
    /\ old_time = -1 /\ new_time = -1 /\ improvement = <<"none">>
    /\ vresult = 0

SizeIdle ==
    /\ len = 1 /\ w = 1 /\ size = EmptyMap

(***************************************************************************)
(* main() of benchmark.cpp                                                 *)
(***************************************************************************)
Init ==
    /\ pc = "main"
    /\ exe \in ExeStates
    /\ nfiles \in 1..MaxFiles
    /\ nconfigs \in 1..MaxConfigs
    /\ fi = 1 /\ ci = 1
    /\ rng = SeededRng
    /\ files = EmptyMap
    /\ calls = <<>> /\ warnings = <<>> /\ rows = <<>>
    /\ results = EmptyMap
    /\ summary = EmptyMap
    /\ notfound = 0
    /\ exit_code = -1
    /\ GenIdle
    /\ MicroIdle
    /\ SizeIdle

\* main: the executable check fails; the notice is printed and main returns 1
ExecutableMissing ==
    /\ pc = "main"
    /\ ~ExecutableFound(exe)
    /\ notfound' = notfound + 1
    /\ exit_code' = 1
    /\ pc' = "exited"
    /\ UNCHANGED <<exe, nfiles, nconfigs, fi, ci, rng, files, calls, warnings,
                   rows, results, summary>>
    /\ UNCHANGED <<gen_vars, micro_vars, size_vars>>

\* main: the executable check passes
ExecutablePresent ==
    /\ pc = "main"
    /\ ExecutableFound(exe)
    /\ pc' = "create"
    /\ UNCHANGED <<exe, nfiles, nconfigs, fi, ci, rng, files, calls, warnings,
                   rows, results, summary, notfound, exit_code>>
    /\ UNCHANGED <<gen_vars, micro_vars, size_vars>>

\* benchmark.createTestFiles()
createTestFiles ==
    /\ pc = "create"
    /\ LET made == CreateFiles(1, nfiles, files, rng)
       IN  /\ files' = made.files
           /\ rng' = made.rng
    /\ fi' = 1 /\ ci' = 1
    /\ pc' = "suite"
    /\ UNCHANGED <<exe, nfiles, nconfigs, calls, warnings, rows, results, summary,
                   notfound, exit_code>>
    /\ UNCHANGED <<gen_vars, micro_vars, size_vars>>

\* one pass of the inner loop of runBenchmarkSuite for cell (fi, ci): the
\* child runs and returns exit status result after elapsed microseconds
RunCell(result, elapsed) ==
    /\ pc = "suite"
    /\ LET file       == test_files[fi]
           pos1       == find(file, "_") + 1
           pos2       == find(file, ".")
           seq_length == stoi(substr(file, pos1, pos2 - pos1))
           config     == test_configs[ci]
           time_ms    == benchmarkCDSfold(result, elapsed)
       IN  /\ calls' = Append(calls, [ command |-> Command(file, config[2]),
                                       file    |-> fi,
                                       config  |-> ci,
                                       result  |-> result,
                                       elapsed |-> IF result = 0 THEN elapsed
                                                   ELSE "discarded" ])
           /\ warnings' = IF result # 0 THEN Append(warnings, file) ELSE warnings
           /\ rows' = EmitRow(rows, file, config[1], time_ms, seq_length)
           /\ results' = Record(results, config[1], time_ms)
    /\ IF ci < nconfigs
       THEN ci' = ci + 1 /\ UNCHANGED <<fi, pc>>
       ELSE IF fi < nfiles
            THEN fi' = fi + 1 /\ ci' = 1 /\ UNCHANGED pc
            ELSE pc' = "analyze" /\ UNCHANGED <<fi, ci>>
    /\ UNCHANGED <<exe, nfiles, nconfigs, rng, files, summary, notfound, exit_code>>
    /\ UNCHANGED <<gen_vars, micro_vars, size_vars>>

\* benchmark.analyzeResults()
analyzeResults ==
    /\ pc = "analyze"
    /\ summary' = Summarize(results)
    /\ pc' = "return"
    /\ UNCHANGED <<exe, nfiles, nconfigs, fi, ci, rng, files, calls, warnings,
                   rows, results, notfound, exit_code>>
    /\ UNCHANGED <<gen_vars, micro_vars, size_vars>>

\* the tail of main: the two static reports are printed and main returns 0
MainReturn ==
    /\ pc = "return"
    /\ exit_code' = 0
    /\ pc' = "exited"
    /\ UNCHANGED <<exe, nfiles, nconfigs, fi, ci, rng, files, calls, warnings,
                   rows, results, summary, notfound>>
    /\ UNCHANGED <<gen_vars, micro_vars, size_vars>>

Next ==
    \/ ExecutableMissing
    \/ ExecutablePresent
    \/ createTestFiles
    \/ \E result \in ExitStatuses(exe), elapsed \in Elapsed : RunCell(result, elapsed)
    \/ analyzeResults
    \/ MainReturn

Spec == Init /\ [][Next]_vars


(***************************************************************************)
(* Properties of the matrix run                                            *)
(***************************************************************************)
\* the executable check passed and the matrix has been swept
SuiteDone == pc \in {"analyze", "return"} \/ (pc = "exited" /\ ExecutableFound(exe))

\* number of samples recorded under a label
Recorded(label) == IF label \in DOMAIN results THEN Len(results[label]) ELSE 0

\* the cells of configuration c whose child returned the success status
Succeeded(c) == {k \in 1..Len(calls) : calls[k].config = c /\ calls[k].result = 0}

\* C1: every (input, configuration) pair launches the process runner exactly
\* once and prints exactly one row with an explicit status, OK or FAILED; the
\* k-th call and the k-th row belong to the k-th pair of the matrix in row
\* order, and a swept matrix has |inputs| x |configurations| rows.
C1_OneRowPerCell ==
    /\ Len(rows) = Len(calls)
    /\ \A k \in 1..Len(calls) :
          /\ calls[k].file = ((k - 1) \div nconfigs) + 1
          /\ calls[k].config = ((k - 1) % nconfigs) + 1
          /\ rows[k].file = test_files[calls[k].file]
          /\ rows[k].config = test_configs[calls[k].config][1]
          /\ rows[k].status \in {"OK", "FAILED"}
    /\ SuiteDone => Len(rows) = nfiles * nconfigs

\* a swept 2 x 2 matrix with both a failed and a successful row
C1_Witness ==
    /\ pc = "exited" /\ nfiles >= 2 /\ nconfigs >= 2
    /\ Len(rows) = nfiles * nconfigs
    /\ \E k \in 1..Len(rows) : rows[k].status = "FAILED" /\ calls[k].result # 0
    /\ \E k \in 1..Len(rows) : rows[k].status = "OK"

\* a step in which a cell's child returned a non-success status
FailedCellStep ==
    /\ Len(calls') = Len(calls) + 1
    /\ calls'[Len(calls')].result # 0

\* C2: a cell whose child returns a non-success exit status adds no sample to
\* the statistics and does not end the run: the sweep goes on to the next cell
\* (to the summary after the last one), main has not returned, and a finished
\* run has launched every cell of the matrix.
C2_FailureIsolation ==
    /\ [][FailedCellStep =>
            /\ results' = results
            /\ exit_code' = -1
            /\ pc' = IF Len(calls') < nfiles * nconfigs THEN "suite" ELSE "analyze"]_vars
    /\ [](SuiteDone => Len(calls) = nfiles * nconfigs)

\* a finished run whose first cell failed, with later cells run and recorded
C2_Witness ==
    /\ pc = "exited" /\ Len(calls) >= 4
    /\ calls[1].result # 0
    /\ \E k \in 2..Len(calls) : calls[k].result = 0 /\ rows[k].status = "OK"
    /\ Recorded(test_configs[1][1]) = 1

\* C3 (as claimed): the row's status follows the child's exit status alone,
\* for every reading: status 0 gives OK with the measured time, any other
\* status gives FAILED.
C3_OutcomeByExitStatus ==
    \A k \in 1..Len(rows) :
        /\ calls[k].result = 0 =>
               rows[k].status = "OK" /\ rows[k].time_ms = calls[k].elapsed
        /\ calls[k].result # 0 => rows[k].status = "FAILED"

\* C4 (as claimed): after the sweep every configuration's sample count, and
\* the "Tests run" of its summary block, is the number of its succeeded cells.
C4_CountEqualsSuccesses ==
    SuiteDone =>
        \A c \in 1..nconfigs :
            LET label == test_configs[c][1]
            IN  /\ Recorded(label) = Cardinality(Succeeded(c))
                /\ (pc \in {"return", "exited"} /\ label \in DOMAIN summary)
                       => summary[label].tests = Cardinality(Succeeded(c))

\* what a summary would show for a label without samples
NoData == [nodata |-> TRUE]

\* C5 (as claimed): once the summary is printed, a configuration without any
\* recorded sample appears in it with an explicit "no data" entry.
C5_NoDataSignalled ==
    (pc \in {"return", "exited"} /\ ExecutableFound(exe)) =>
        \A c \in 1..nconfigs :
            LET label == test_configs[c][1]
            IN  Recorded(label) = 0 =>
                    label \in DOMAIN summary /\ summary[label] = NoData

\* C6 (as claimed): with the executable missing or not executable no cell is
\* run, and the run ends with the condition reported once.
C6_AbortBeforeMatrix ==
    exe # "ok" =>
        /\ calls = <<>>
        /\ pc = "exited" => notfound = 1

\* C7: main returns non-zero exactly when the executable is absent, and zero
\* in every other run, whatever the cells did.
C7_ExitStatus ==
    pc = "exited" => (exit_code # 0 <=> exe = "missing")

\* main returned 0 from a run in which every cell failed
C7_Witness ==
    /\ pc = "exited" /\ exit_code = 0
    /\ calls # <<>>
    /\ \A k \in 1..Len(calls) : calls[k].result # 0

\* C9 (as claimed): a row has a throughput value exactly when its cell
\* succeeded; the value is then positive and equal to
\* sequence_length x 1000 / elapsed_ms; a failed cell shows "N/A".
C9_Throughput ==
    \A k \in 1..Len(rows) :
        /\ (rows[k].throughput # <<"N/A">>) <=> (calls[k].result = 0)
        /\ calls[k].result = 0 =>
              /\ rows[k].throughput[1] > 0
              /\ rows[k].throughput[1] * calls[k].elapsed
                     = lengths[calls[k].file] * 1000000


(***************************************************************************)
(* Generator driver: generateTestSequence called on PerformanceBenchmark   *)
(* objects of two process runs, each constructed with rng(42)              *)
(***************************************************************************)
InitGen == HarnessIdle /\ GenIdle /\ MicroIdle /\ SizeIdle

\* the calls instance inst has made so far
CallsOf(inst) == {k \in 1..Len(gen_out) : gen_out[k].inst = inst}

\* benchmark.generateTestSequence(length) on instance inst
Generate(inst, length) ==
    /\ Cardinality(CallsOf(inst)) < MaxGenCalls
    /\ gen_out' = Append(gen_out,
                     [ inst   |-> inst,
                       length |-> length,
                       text   |-> generateTestSequence(length, gen_rng[inst]) ])
    /\ gen_rng' = [gen_rng EXCEPT ![inst] = RngAfter(length, @)]
    /\ UNCHANGED <<harness_vars, micro_vars, size_vars>>

NextGen == \E inst \in Instances, length \in 1..MaxGenLen : Generate(inst, length)

SpecGen == InitGen /\ [][NextGen]_vars

\* C8 (as claimed): any two invocations with the same length, on the same
\* instance or in two process runs, return the same string.
C8_Deterministic ==
    \A i, j \in 1..Len(gen_out) :
        gen_out[i].length = gen_out[j].length => gen_out[i].text = gen_out[j].text


(***************************************************************************)
(* old_getMatrixSize and new_getMatrixSize of micro_benchmark.cpp          *)
(***************************************************************************)
MaxMatrixLen == 6
MaxWidth == 6

RECURSIVE OldLoop(_, _, _)
\* what passes lo..hi of the for loop of old_getMatrixSize add to size: the
\* terms len-(i-1), added up by halves to keep the evaluation shallow
OldLoop(l, lo, hi) ==
    IF lo > hi THEN 0
    ELSE IF lo = hi THEN l - (lo - 1)
    ELSE LET mid == (lo + hi) \div 2
         IN  OldLoop(l, lo, mid) + OldLoop(l, mid + 1, hi)

\* OLD: loop-based matrix size calculation
old_getMatrixSize(l, width) == 0 + OldLoop(l, 1, width)

\* NEW: formula-based matrix size calculation
new_getMatrixSize(l, width) ==
    IF width <= l
    THEN width * l - (width * (width - 1)) \div 2
    ELSE (l * (l + 1)) \div 2

InitSize ==
    /\ HarnessIdle /\ GenIdle /\ MicroIdle
    /\ len \in 1..MaxMatrixLen
    /\ w \in 1..MaxWidth
    /\ size = EmptyMap

\* a caller evaluates old_getMatrixSize(len, w)
CallOldSize ==
    /\ "old" \notin DOMAIN size
    /\ size' = [f \in DOMAIN size \cup {"old"} |->
                   IF f = "old" THEN old_getMatrixSize(len, w) ELSE size[f]]
    /\ UNCHANGED <<len, w>>
    /\ UNCHANGED <<harness_vars, gen_vars, micro_vars>>

\* a caller evaluates new_getMatrixSize(len, w)
CallNewSize ==
    /\ "new" \notin DOMAIN size
    /\ size' = [f \in DOMAIN size \cup {"new"} |->
                   IF f = "new" THEN new_getMatrixSize(len, w) ELSE size[f]]
    /\ UNCHANGED <<len, w>>
    /\ UNCHANGED <<harness_vars, gen_vars, micro_vars>>

NextSize == CallOldSize \/ CallNewSize

SpecSize == InitSize /\ [][NextSize]_vars

\* C14 (as claimed): for every len >= 1 and w >= 1, also for w above len,
\* new_getMatrixSize(len, w) returns what old_getMatrixSize(len, w) returns.
C14_SameMatrixSize ==
    DOMAIN size = {"old", "new"} => size["new"] = size["old"]

(***************************************************************************)
(* MicroBenchmark::runAllBenchmarks of micro_benchmark.cpp                 *)
(***************************************************************************)
\* the comparisons in the order runAllBenchmarks runs them
Benchmarks == <<"benchmark_MinMax", "benchmark_MatrixSize",
                "benchmark_ArrayClearing", "benchmark_DataStructures">>

\* the names the comparisons pass to timeFunction: <<old, new>>
Names ==
    << <<"OLD: Macro MIN/MAX", "NEW: Constexpr MIN/MAX">>,
       <<"OLD: Loop-based", "NEW: Formula-based">>,
       <<"OLD: Manual loop", "NEW: std::fill_n">>,
       <<"OLD: C-style array", "NEW: std::array">> >>

\* Readings of the clock interval of one timed loop, in microseconds
TimesUs == {0, 75000, 100000, 120000}

Abs(n) == IF n < 0 THEN -n ELSE n

RECURSIVE GCD(_, _)
GCD(a, b) == IF b = 0 THEN a ELSE GCD(b, a % b)

\* the real number n / d (d > 0) in lowest terms
Rat(n, d) ==
    LET g == GCD(Abs(n), d)
    IN  [num |-> n \div g, den |-> d \div g]

\* variant: a slower candidate is reported as no improvement
Improvement_Clamped(old, new) ==
    IF old = 0 THEN (IF new = 0 THEN [nan |-> TRUE] ELSE [inf |-> "-"])
    ELSE IF new > old THEN Rat(0, 1) ELSE Rat((old - new) * 100, old)

\* ((old_time - new_time) / old_time) * 100 in double arithmetic: a real
\* number when old_time is not zero, else 0/0 = NaN or -x/0 = -infinity
Improvement(old, new) ==
    IF old = 0 THEN (IF new = 0 THEN [nan |-> TRUE] ELSE [inf |-> "-"])
    ELSE Rat((old - new) * 100, old)

\* iterations / time_ms printed by timeFunction
OpsPerMs(iterations, time) ==
    IF time = 0 THEN [inf |-> "+"] ELSE Rat(iterations * 1000, time)

\* |num| * 10 / den rounded to the nearest integer, ties to even
RoundTenths(num, den) ==
    LET q == (Abs(num) * 10) \div den
        r == (Abs(num) * 10) % den
    IN  IF 2 * r > den \/ (2 * r = den /\ q % 2 = 1) THEN q + 1 ELSE q

\* cout << fixed << setprecision(1) << value << "%"
Fixed1(value) ==
    IF "nan" \in DOMAIN value THEN <<"n", "a", "n", "%">>
    ELSE IF "inf" \in DOMAIN value THEN <<value.inf, "i", "n", "f", "%">>
    ELSE LET t == RoundTenths(value.num, value.den)
         IN  (IF value.num < 0 THEN <<"-">> ELSE <<>>)
                 \o to_string(t \div 10) \o <<".">> \o to_string(t % 10) \o <<"%">>

\* the iterations argument of timeFunction in comparison b
IterationsOf(b) ==
    IF Benchmarks[b] = "benchmark_ArrayClearing" THEN ClearIterations ELSE Iterations

\* MicroBenchmark::ITERATIONS, the default iterations argument of timeFunction
ITERATIONS == 1000000

\* the greatest value of an int
INT_MAX == 2147483647

\* test_params of benchmark_MatrixSize: <<len, w>>
test_params == << <<100, 50>>, <<200, 100>>, <<500, 250>>, <<1000, 500>>, <<2000, 1000>> >>

\* what one call of the MIN/MAX lambda adds to result: min + max of each of
\* the 1000 pairs, which is the sum of the first 2000 values that
\* uniform_int_distribution<int>(1, 1000) draws from mt19937(42)
MinMaxCallSum == 996993

RECURSIVE SumSeq(_)
SumSeq(q) == IF q = <<>> THEN 0 ELSE Head(q) + SumSeq(Tail(q))

\* what one call of the timed lambda adds to result, by comparison and
\* variant; benchmark_ArrayClearing has no result and adds nothing
CallSums ==
    << [ old |-> MinMaxCallSum, new |-> MinMaxCallSum ],
       [ old |-> SumSeq([k \in 1..Len(test_params) |->
                            old_getMatrixSize(test_params[k][1], test_params[k][2])]),
         new |-> SumSeq([k \in 1..Len(test_params) |->
                            new_getMatrixSize(test_params[k][1], test_params[k][2])]) ],
       [ old |-> 0, new |-> 0 ],
       [ old |-> SumSeq([k \in 1..100 |-> k - 1]),
         new |-> SumSeq([k \in 1..100 |-> k - 1]) ] >>

\* what the timed lambda of comparison b stores its work into
Sink(b) ==
    IF Benchmarks[b] = "benchmark_ArrayClearing"
    THEN [ object |-> "test_array", volatile |-> FALSE ]
    ELSE [ object |-> "result", volatile |-> TRUE ]

\* r + d of two ints leaves the range of int (d >= 0)
Overflows(r, d) == r > INT_MAX - d

\* r + d reduced modulo 2^32 into the range of int, for an overflowing sum
Wrapped(r, d) == ((r - INT_MAX) - 1) + ((d - INT_MAX) - 1)

\* variant: the loop alternates between the two lambdas
Invoked_Interleaved(m, i) == IF i % 2 = 0 THEN "old" ELSE "new"

\* func() in pass i of the loop of timeFunction: the lambda the comparison
\* passed to this call of timeFunction
Invoked(m, i) == IF m \in {"old_start", "old_loop"} THEN "old" ELSE "new"

InitMicro ==
    /\ HarnessIdle /\ GenIdle /\ SizeIdle
    /\ mpc = "old_start" /\ bench = 1 /\ iter = 0 /\ trace = <<>> /\ timings = <<>>
    /\ old_time = -1 /\ new_time = -1 /\ improvement = <<"none">>
    /\ vresult = 0

\* timeFunction: start = high_resolution_clock::now()
StartClock ==
    /\ mpc \in {"old_start", "new_start"}
    /\ trace' = Append(trace, [ev |-> "start", variant |-> Invoked(mpc, 0)])
    /\ mpc' = IF mpc = "old_start" THEN "old_loop" ELSE "new_loop"
    /\ UNCHANGED <<bench, iter, timings, old_time, new_time, improvement, vresult>>
    /\ UNCHANGED <<harness_vars, gen_vars, size_vars>>

\* timeFunction called with n iterations: one pass of the loop, func() is
\* invoked and adds to result; a sum outside the range of int is undefined
\* behaviour: the build wraps it, or traps and the process ends
Invoke(n) ==
    /\ mpc \in {"old_loop", "new_loop"}
    /\ iter < n
    /\ iter' = iter + 1
    /\ LET f == Invoked(mpc, iter)
           d == CallSums[bench][f]
       IN  /\ trace' = Append(trace, [ev |-> "call", variant |-> f, sink |-> Sink(bench)])
           /\ IF Overflows(vresult, d)
              THEN \/ vresult' = Wrapped(vresult, d) /\ UNCHANGED mpc
                   \/ mpc' = "aborted" /\ UNCHANGED vresult
              ELSE vresult' = vresult + d /\ UNCHANGED mpc
    /\ UNCHANGED <<bench, timings, old_time, new_time, improvement>>
    /\ UNCHANGED <<harness_vars, gen_vars, size_vars>>

\* timeFunction: one pass of the loop
CallFunc == Invoke(IterationsOf(bench))

\* timeFunction: the loop is over, the clock is read (d microseconds since
\* the start), the line is printed and time_ms returned to the comparison
StopClock(d) ==
    /\ mpc \in {"old_loop", "new_loop"}
    /\ iter = IterationsOf(bench)
    /\ trace' = Append(trace, [ev |-> "stop", variant |-> Invoked(mpc, iter)])
    /\ timings' = Append(timings,
                     [ name    |-> Names[bench][IF mpc = "old_loop" THEN 1 ELSE 2],
                       time_ms |-> d,
                       ops     |-> OpsPerMs(IterationsOf(bench), d) ])
    /\ IF mpc = "old_loop"
       THEN old_time' = d /\ mpc' = "new_start" /\ UNCHANGED new_time
       ELSE new_time' = d /\ mpc' = "report" /\ UNCHANGED old_time
    /\ iter' = 0
    /\ UNCHANGED <<bench, improvement, vresult>>
    /\ UNCHANGED <<harness_vars, gen_vars, size_vars>>

\* the comparison computes improvement and prints it
Report ==
    /\ mpc = "report"
    /\ LET value == Improvement(old_time, new_time)
       IN  improvement' = [value |-> value, printed |-> Fixed1(value)]
    /\ mpc' = "reported"
    /\ UNCHANGED <<bench, iter, trace, timings, old_time, new_time, vresult>>
    /\ UNCHANGED <<harness_vars, gen_vars, size_vars>>

\* runAllBenchmarks goes on to the next comparison, with fresh locals
NextBenchmark ==
    /\ mpc = "reported"
    /\ bench < Len(Benchmarks)
    /\ bench' = bench + 1
    /\ mpc' = "old_start"
    /\ iter' = 0 /\ trace' = <<>> /\ timings' = <<>>
    /\ old_time' = -1 /\ new_time' = -1 /\ improvement' = <<"none">>
    /\ vresult' = 0
    /\ UNCHANGED <<harness_vars, gen_vars, size_vars>>

\* the last comparison is over: the closing text is printed, main returns 0
MicroReturn ==
    /\ mpc = "reported"
    /\ bench = Len(Benchmarks)
    /\ mpc' = "done"
    /\ UNCHANGED <<bench, iter, trace, timings, old_time, new_time, improvement, vresult>>
    /\ UNCHANGED <<harness_vars, gen_vars, size_vars>>

NextMicro ==
    \/ StartClock
    \/ CallFunc
    \/ \E d \in TimesUs : StopClock(d)
    \/ Report
    \/ NextBenchmark
    \/ MicroReturn

SpecMicro == InitMicro /\ [][NextMicro]_vars

\* C10: with a baseline above zero the comparison reports the real number
\* (old_time - new_time) / old_time x 100, negative when the candidate is
\* slower, and prints it with its sign at one decimal: 100 ms against 75 ms
\* is 25 ("25.0%"), 100 ms against 120 ms is -20 ("-20.0%").
C10_ImprovementSigned ==
    (mpc \in {"reported", "done"} /\ old_time > 0) =>
        LET v == improvement.value
        IN  /\ DOMAIN v = {"num", "den"}
            /\ v.den > 0
            /\ v.num * old_time = (old_time - new_time) * 100 * v.den
            /\ (new_time > old_time) => (v.num < 0 /\ Head(improvement.printed) = "-")
            /\ (old_time = 100000 /\ new_time = 75000) =>
                   /\ v = [num |-> 25, den |-> 1]
                   /\ improvement.printed = <<"2", "5", ".", "0", "%">>
            /\ (old_time = 100000 /\ new_time = 120000) =>
                   /\ v = [num |-> -20, den |-> 1]
                   /\ improvement.printed = <<"-", "2", "0", ".", "0", "%">>

\* a comparison of 100 ms against 120 ms has been reported
C10_Witness ==
    /\ mpc = "reported"
    /\ old_time = 100000 /\ new_time = 120000
    /\ improvement.value.num = -20

\* what a comparison would show in place of a number
Undefined == [undefined |-> TRUE]

\* C11 (as claimed): a comparison whose baseline measured 0 ms reports no
\* number: the improvement is marked undefined and the report carries the
\* advice to raise the iteration count.
C11_ZeroBaselineUndefined ==
    (mpc \in {"reported", "done"} /\ old_time = 0) =>
        /\ improvement.value = Undefined
        /\ "advice" \in DOMAIN improvement

(***************************************************************************)
(* main() of benchmark.cpp when every child succeeds: a sweep of one       *)
(* configuration over up to MaxSweep files, with timer readings close to   *)
(* each other, as repeated runs of one command give                        *)
(***************************************************************************)
MaxSweep == 3

\* timer readings of a successful child, in microseconds
SweepElapsed == {1000, 1001, 1014, 1435}

InitSweep ==
    /\ pc = "main"
    /\ exe = "ok"
    /\ nfiles \in 1..MaxSweep
    /\ nconfigs = 1
    /\ fi = 1 /\ ci = 1
    /\ rng = SeededRng
    /\ files = EmptyMap
    /\ calls = <<>> /\ warnings = <<>> /\ rows = <<>>
    /\ results = EmptyMap
    /\ summary = EmptyMap
    /\ notfound = 0
    /\ exit_code = -1
    /\ GenIdle
    /\ MicroIdle
    /\ SizeIdle

NextSweep ==
    \/ ExecutablePresent
    \/ createTestFiles
    \/ \E elapsed \in SweepElapsed : RunCell(0, elapsed)
    \/ analyzeResults
    \/ MainReturn

SpecSweep == InitSweep /\ [][NextSweep]_vars

\* analyzeResults has printed its blocks
Analyzed == pc \in {"return", "exited"} /\ ExecutableFound(exe)

\* C12 (as claimed): in every block analyzeResults prints, the average is no
\* smaller than the minimum and no larger than the maximum, and the minimum
\* and maximum are the least and greatest sample of the label.
C12_MeanBetweenMinAndMax ==
    Analyzed =>
        \A l \in DOMAIN summary :
            LET s == summary[l]
            IN  /\ \A i \in DOMAIN results[l] :
                        s.min_time <= results[l][i] /\ results[l][i] <= s.max_time
                /\ ~DLess(s.avg_time, Millis(s.min_time))
                /\ ~DLess(Millis(s.max_time), s.avg_time)

\* the orders n samples can come in
Orders(n) == {p \in [1..n -> 1..n] : \A i, j \in 1..n : p[i] = p[j] => i = j}

\* C13 (as claimed): the block analyzeResults prints for a label (count,
\* average, minimum, maximum) is the same whatever the order in which the
\* label's samples were recorded.
C13_OrderIndependent ==
    Analyzed =>
        \A l \in DOMAIN summary :
            \A p \in Orders(Len(results[l])) :
                Stats([i \in 1..Len(results[l]) |-> results[l][p[i]]]) = summary[l]

(***************************************************************************)
(* Properties of the timed loops of a comparison                           *)
(***************************************************************************)
\* the clock and call events of a whole comparison with n iterations
ExpectedTrace(n) ==
    <<  <<"start", "old">> >> \o [i \in 1..n |-> <<"call", "old">>] \o << <<"stop", "old">> >>
    \o << <<"start", "new">> >> \o [i \in 1..n |-> <<"call", "new">>] \o << <<"stop", "new">> >>

\* C15: in every comparison the baseline runs first: its clock is started,
\* it is invoked iterations times and its clock is stopped before the clock
\* of the candidate is started; the candidate is then invoked the same number
\* of times before its own clock is stopped, and nothing else is invoked.
C15_SequentialVariants ==
    LET seen == [i \in 1..Len(trace) |-> <<trace[i].ev, trace[i].variant>>]
        full == ExpectedTrace(IterationsOf(bench))
    IN  /\ Len(seen) <= Len(full)
        /\ seen = SubSeq(full, 1, Len(seen))
        /\ mpc \in {"report", "reported", "done"} => seen = full

\* a comparison of two passes per variant has run both timed loops
C15_Witness ==
    /\ mpc = "report"
    /\ IterationsOf(bench) >= 2
    /\ Len(trace) = 2 * IterationsOf(bench) + 4
    /\ trace[2].variant = "old"
    /\ trace[Len(trace) - 1].variant = "new"

\* C17 (as claimed): every invocation of a timed operation, of the baseline
\* and of the candidate, in each of the four comparisons, stores its work
\* into a volatile object, so that the loop cannot be removed as dead code.
C17_GuardedByVolatile ==
    \A i \in 1..Len(trace) : trace[i].ev = "call" => trace[i].sink.volatile

(***************************************************************************)
(* The baseline loop of a comparison with the iteration counts of the      *)
(* program, followed for the first MaxAccumulate passes                    *)
(***************************************************************************)
MaxAccumulate == 2200

\* the iterations argument the comparison b passes to timeFunction
FullIterationsOf(b) ==
    IF Benchmarks[b] = "benchmark_ArrayClearing" THEN 10000 ELSE ITERATIONS

\* runAllBenchmarks has entered one of its comparisons
InitAccum ==
    /\ HarnessIdle /\ GenIdle /\ SizeIdle
    /\ mpc = "old_start" /\ bench \in 1..Len(Benchmarks)
    /\ iter = 0 /\ trace = <<>> /\ timings = <<>>
    /\ old_time = -1 /\ new_time = -1 /\ improvement = <<"none">>
    /\ vresult = 0

\* timeFunction: one pass of the loop
CallFuncFull ==
    /\ iter < MaxAccumulate
    /\ Invoke(FullIterationsOf(bench))

NextAccum == StartClock \/ CallFuncFull

SpecAccum == InitAccum /\ [][NextAccum]_vars

\* C18 (as claimed): no addition to the int accumulator result overflows:
\* the process is not stopped by a trap, and result, a sum of non-negative
\* values that starts at 0, never shows a negative value.
C18_AccumulatorInRange ==
    /\ mpc # "aborted"
    /\ vresult >= 0
    /\ vresult <= INT_MAX

(***************************************************************************)
(* A caller that sweeps the matrix up to MaxRuns times on one              *)
(* PerformanceBenchmark before it asks for the summary                     *)
(***************************************************************************)
MaxRuns == 2

\* timer readings of a successful child, in microseconds
RunElapsed == {2500, 20000000}

InitRuns ==
    /\ pc = "main"
    /\ exe = "ok"
    /\ nfiles = 1
    /\ nconfigs \in 1..MaxConfigs
    /\ fi = 1 /\ ci = 1
    /\ rng = SeededRng
    /\ files = EmptyMap
    /\ calls = <<>> /\ warnings = <<>> /\ rows = <<>>
    /\ results = EmptyMap
    /\ summary = EmptyMap
    /\ notfound = 0
    /\ exit_code = -1
    /\ GenIdle
    /\ MicroIdle
    /\ SizeIdle

\* runBenchmarkSuite() is called once more on the same object: its locals
\* are set up, the header is printed and the loops start over; the member
\* results is not touched
runBenchmarkSuite ==
    /\ pc = "analyze"
    /\ Len(calls) < MaxRuns * nfiles * nconfigs
    /\ fi' = 1 /\ ci' = 1
    /\ pc' = "suite"
    /\ UNCHANGED <<exe, nfiles, nconfigs, rng, files, calls, warnings, rows, results,
                   summary, notfound, exit_code>>
    /\ UNCHANGED <<gen_vars, micro_vars, size_vars>>

NextRuns ==
    \/ ExecutablePresent
    \/ createTestFiles
    \/ \E result \in ExitStatuses(exe), elapsed \in RunElapsed : RunCell(result, elapsed)
    \/ runBenchmarkSuite
    \/ analyzeResults
    \/ MainReturn

SpecRuns == InitRuns /\ [][NextRuns]_vars

\* the calls of the latest sweep with configuration c that succeeded
LatestSucceeded(c) ==
    {k \in Succeeded(c) : k > Len(calls) - nfiles * nconfigs}

\* C16 (as claimed): whenever a sweep of the matrix starts, results holds no
\* samples, and when a sweep is over each label holds exactly the samples of
\* the successful calls of that latest sweep.
C16_NoStateAcrossRuns ==
    /\ (pc = "suite" /\ fi = 1 /\ ci = 1) => \A l \in DOMAIN results : results[l] = <<>>
    /\ SuiteDone =>
           \A c \in 1..nconfigs :
               Recorded(test_configs[c][1]) = Cardinality(LatestSucceeded(c))

====
